---- MODULE Spec2Model ----
(***************************************************************************)
(* Domain research assistant (mridulv/domaingenerator).                    *)
(*                                                                         *)
(*   domain_tools.py          DomainTools: the five tool functions         *)
(*   domain_research_crew.py  DomainResearchCrew: three tasks, one crew    *)
(*   dns.py                   DomainResearchUI: the streamlit session      *)
(*                                                                         *)
(* Strings are sequences of characters, Python dicts are functions from    *)
(* keys to values, Python scalars that end up in a dict next to values of  *)
(* another type are written as their repr ("True", "False", "None").       *)
(***************************************************************************)
EXTENDS Integers, Sequences, FiniteSets, TLC

VARIABLES
    environ,        \* os.environ: the GoDaddy credentials
    tools_self,     \* the DomainTools instance (fields set by __init__)
    domain_name,    \* argument of the tool call
    ret,            \* what the last tool call returned
    lookup,         \* what the registrar lookup of the last call did
    http,           \* number of HTTP requests sent so far
    program,        \* which entry point runs: main() or the streamlit script
    session_state,  \* st.session_state, a dict
    widgets,        \* the input widgets of the input stage
    checked,        \* the candidate names whose checkbox is ticked
    caller,         \* who called process_domain_request
    args,           \* the positional arguments of that call
    pc,             \* where the call is: idle, kickoff, returned, raised
    error,          \* the exception that ended the call, "" when none
    tasks,          \* the crew's task list
    status,         \* per task: pending, running, done, failed
    input,          \* per task: the context it was started with
    output,         \* per task: what it produced
    result          \* what process_domain_request returned

toolVars == <<environ, tools_self, domain_name, ret, lookup, http>>
uiVars == <<session_state, widgets, checked>>
callVars == <<caller, args, pc, error, tasks, status, input, output, result>>

vars == <<toolVars, program, uiVars, callVars>>

----------------------------------------------------------------------------
(* Bounds *)

MaxDomainLen == 6       \* longest domain string passed to a tool
MaxRequests == 1        \* HTTP requests counted before the counter stops
MaxBaseLen == 62        \* longest base name passed to generate_domain_variations

----------------------------------------------------------------------------
(* Strings *)

Letters == {"a"}
Digits == {"7"}
Chars == Letters \cup Digits \cup {"."}

Strings(n) == UNION {[1..k -> Chars] : k \in 0..n}

Domains == Strings(MaxDomainLen)

\* char.isdigit()
isdigit(char) == char \in Digits

----------------------------------------------------------------------------
(* DomainTools *)

PyTrue == "True"
PyFalse == "False"
PyNone == "None"

Environs ==
    {[GODADDY_API_KEY |-> PyNone, GODADDY_API_SECRET |-> PyNone],
     [GODADDY_API_KEY |-> "key", GODADDY_API_SECRET |-> "secret"]}

\* DomainTools.__init__: the credentials are read from the environment.
DomainTools_init(env) ==
    [godaddy_api_key |-> env.GODADDY_API_KEY,
     godaddy_api_secret |-> env.GODADDY_API_SECRET,
     api_headers |-> [Authorization |-> <<"sso-key", env.GODADDY_API_KEY, env.GODADDY_API_SECRET>>,
                      ContentType |-> "application/json"]]

\* dict.get(key, default)
get(data, key, default) == IF key \in DOMAIN data THEN data[key] ELSE default

\* What the registrar lookup can do: requests.get raises, response.json()
\* raises, or a JSON body is parsed (an object, or something else).
JsonKeys == {"available", "price", "currency"}
JsonValues(key) ==
    CASE key = "available" -> {PyTrue, PyFalse, PyNone}
      [] key = "price" -> {"9.99"}
      [] key = "currency" -> {"EUR"}
AllJsonValues == UNION {JsonValues(k) : k \in JsonKeys}
JsonObjects ==
    {d \in UNION {[K -> AllJsonValues] : K \in SUBSET JsonKeys} :
        \A k \in DOMAIN d : d[k] \in JsonValues(k)}
Lookups ==
    {[kind |-> "transport_error"], [kind |-> "unparseable"],
     [kind |-> "json_list"], [kind |-> "json_null"]}
    \cup {[kind |-> "json_object", data |-> d] : d \in JsonObjects}

\* The exception a lookup raises inside the try block, "" when none.
LookupException(l) ==
    CASE l.kind = "transport_error" -> "ConnectionError"
      [] l.kind = "unparseable" -> "JSONDecodeError"
      [] l.kind \in {"json_list", "json_null"} -> "AttributeError"
      [] OTHER -> ""

\* Variant: the handler catches only the transport and parse errors, so the
\* AttributeError of a body that is not an object escapes.
check_domain_availability_narrow_except(self, name, l) ==
    IF LookupException(l) = "AttributeError"
    THEN [requests |-> 1, raised |-> TRUE, value |-> [domain |-> name]]
    ELSE [requests |-> 1,
          raised |-> FALSE,
          value |->
             IF LookupException(l) = ""
             THEN [domain |-> name,
                   available |-> get(l.data, "available", PyFalse),
                   price |-> get(l.data, "price", PyNone),
                   currency |-> get(l.data, "currency", "USD")]
             ELSE [domain |-> name,
                   available |-> PyFalse,
                   error |-> LookupException(l)]]

\* check_domain_availability(self, domain_name): one GET with the instance's
\* headers; any exception in the try block gives the error record.
check_domain_availability(self, name, l) ==
    [requests |-> 1,
     raised |-> FALSE,
     value |->
        IF LookupException(l) = ""
        THEN [domain |-> name,
              available |-> get(l.data, "available", PyFalse),
              price |-> get(l.data, "price", PyNone),
              currency |-> get(l.data, "currency", "USD")]
        ELSE [domain |-> name,
              available |-> PyFalse,
              error |-> LookupException(l)]]

\* any(char.isdigit() for char in domain_name)
has_numbers(name) == \E i \in 1..Len(name) : isdigit(name[i])

\* Variant: the short-name test is off by one (length <= 6).
estimate_domain_value_off_by_one(self, name) ==
    LET length == Len(name)
        base0 == 1000
        base1 == IF length <= 6 THEN base0 * 2 ELSE base0
        base2 == IF ~has_numbers(name) THEN (base1 * 3) \div 2 ELSE base1
    IN [requests |-> 0,
        raised |-> FALSE,
        value |-> [estimated_value |-> base2,
                   factors |-> [length |-> length,
                                has_numbers |-> has_numbers(name),
                                brandability_score |-> "7.5"],
                   confidence_score |-> "0.8"]]

\* Variant: the confidence depends on whether the instance has credentials.
estimate_domain_value_reads_self(self, name) ==
    LET length == Len(name)
        base0 == 1000
        base1 == IF length < 6 THEN base0 * 2 ELSE base0
        base2 == IF ~has_numbers(name) THEN (base1 * 3) \div 2 ELSE base1
    IN [requests |-> 0,
        raised |-> FALSE,
        value |-> [estimated_value |-> base2,
                   factors |-> [length |-> length,
                                has_numbers |-> has_numbers(name),
                                brandability_score |-> "7.5"],
                   confidence_score |-> IF self.godaddy_api_key = PyNone THEN "0.5" ELSE "0.8"]]

\* estimate_domain_value(self, domain_name); 1.5 is 3/2, and every value it
\* multiplies is even.
estimate_domain_value(self, name) ==
    LET length == Len(name)
        base0 == 1000
        base1 == IF length < 6 THEN base0 * 2 ELSE base0
        base2 == IF ~has_numbers(name) THEN (base1 * 3) \div 2 ELSE base1
    IN [requests |-> 0,
        raised |-> FALSE,
        value |-> [estimated_value |-> base2,
                   factors |-> [length |-> length,
                                has_numbers |-> has_numbers(name),
                                brandability_score |-> "7.5"],
                   confidence_score |-> "0.8"]]

\* str.upper()
upper(name) == [i \in 1..Len(name) |-> IF name[i] = "a" THEN "A" ELSE name[i]]

\* research_similar_companies(self, domain_name): one canned record.
research_similar_companies(self, name) ==
    [requests |-> 0,
     raised |-> FALSE,
     value |-> <<[name |-> <<"Similar">> \o name,
                  description |-> "A similar company in the industry",
                  website |-> <<"https://similar">> \o name \o <<".com">>,
                  industry |-> "Technology",
                  founded_year |-> 2020]>>]

\* check_trademark_conflicts(self, domain_name): one canned record.
check_trademark_conflicts(self, name) ==
    [requests |-> 0,
     raised |-> FALSE,
     value |-> <<[trademark |-> upper(name),
                  owner |-> "Sample Company Inc",
                  registration_number |-> "US123456",
                  risk_level |-> "LOW"]>>]

\* The strings of up to 2 characters over an alphabet.
Range2(alphabet) == UNION {[1..k -> alphabet] : k \in 0..2}

\* Characters of a base name: a lower-case letter, an upper-case letter, a
\* digit, and the capital I with a dot above (U+0130), whose lower-case form
\* is two characters, i and the combining dot above (U+0307).
BaseChars == {"a", "A", "7", "U+0130"}

\* char.lower()
lower_char(char) ==
    CASE char = "A" -> <<"a">>
      [] char = "U+0130" -> <<"i", "U+0307">>
      [] OTHER -> <<char>>

\* str.lower()
RECURSIVE lower(_)
lower(name) == IF name = << >> THEN << >> ELSE lower_char(Head(name)) \o lower(Tail(name))

\* The base names tried: every string of up to 2 characters, and the strings
\* made of one character repeated.
BaseNames ==
    Range2(BaseChars) \cup {[i \in 1..k |-> c] : c \in BaseChars, k \in 0..MaxBaseLen}

LabelLimit == 63

prefixes == <<<<"g", "e", "t">>, <<"t", "r", "y">>, <<"u", "s", "e">>, <<"m", "y">>, <<"t", "h", "e">>>>
suffixes == <<<<"a", "p", "p">>, <<"i", "o">>, <<"c", "o">>, <<"n", "e", "t">>, <<"o", "r", "g">>>>

\* One of the two loops of generate_domain_variations: the affixes in order,
\* each joined to the base name; a name of at most 63 characters is appended,
\* lower-cased.
RECURSIVE VariationLoop(_, _, _, _)
VariationLoop(affixes, base_name, type, score) ==
    IF affixes = << >> THEN << >>
    ELSE LET name == IF type = "prefix" THEN Head(affixes) \o base_name
                     ELSE base_name \o Head(affixes)
         IN (IF Len(name) <= LabelLimit
             THEN <<[name |-> lower(name), type |-> type, score |-> score]>>
             ELSE << >>)
            \o VariationLoop(Tail(affixes), base_name, type, score)

\* generate_domain_variations(self, base_name)
generate_domain_variations(self, base_name) ==
    [requests |-> 0,
     raised |-> FALSE,
     value |-> VariationLoop(prefixes, base_name, "prefix", "0.8")
               \o VariationLoop(suffixes, base_name, "suffix", "0.9")]

----------------------------------------------------------------------------
(* DomainResearchCrew *)

MaxNames == 11          \* size of the pool the name generator draws from
ExpectedNames == 10     \* "Return exactly 10 domain suggestions."

\* Candidate names: name n has a label of n + 2 characters, then ".ai".
NamePool == 1..MaxNames
LabelLen(n) == n + 2

Str(s) == [type |-> "str", value |-> s]
NoneValue == [type |-> "None"]

DomainResearchRequest(domain_type, industry, max_length, include_numbers) ==
    [type |-> "DomainResearchRequest", domain_type |-> domain_type, industry |-> industry,
     max_length |-> max_length, include_numbers |-> include_numbers]

\* The requests of main() and of callers like it: max_length 12 as in main(),
\* or the default 15.
Requests ==
    {DomainResearchRequest("tech startup", i, m, b) :
        i \in {PyNone, "Technology"}, m \in {12, 15}, b \in {FALSE}}

\* setup_agents: the tools each agent may call.
AgentTools(agent) ==
    CASE agent = "name_generator" -> {}
      [] agent = "availability_agent" -> {"check_domain_availability", "estimate_domain_value"}
      [] agent = "research_agent" -> {"research_similar_companies", "check_trademark_conflicts"}

name_generation_task(request) ==
    [name |-> "name_generation",
     agent |-> "name_generator",
     tools |-> AgentTools("name_generator"),
     dependencies |-> {},
     industry |-> IF request.industry = PyNone THEN "Not specified" ELSE request.industry,
     domain_type |-> request.domain_type,
     max_length |-> request.max_length,
     include_numbers |-> request.include_numbers,
     at_least |-> 10,
     exactly |-> ExpectedNames]

availability_task ==
    [name |-> "availability", agent |-> "availability_agent",
     tools |-> AgentTools("availability_agent"),
     dependencies |-> {"name_generation"}]

market_research_task ==
    [name |-> "market_research", agent |-> "research_agent",
     tools |-> AgentTools("research_agent"),
     dependencies |-> {"availability"}]

\* Variant: the list is returned with the last two tasks swapped.
create_tasks_swapped(request) ==
    IF request.type # "DomainResearchRequest"
    THEN [raised |-> TRUE, error |-> "AttributeError", tasks |-> << >>]
    ELSE [raised |-> FALSE, error |-> "",
          tasks |-> <<name_generation_task(request), market_research_task, availability_task>>]

\* create_tasks(self, request): reading request.industry of a str raises
\* AttributeError.
create_tasks(request) ==
    IF request.type # "DomainResearchRequest"
    THEN [raised |-> TRUE, error |-> "AttributeError", tasks |-> << >>]
    ELSE [raised |-> FALSE, error |-> "",
          tasks |-> <<name_generation_task(request), availability_task, market_research_task>>]

\* process_results(self, crew_results): prints, and falls off the end.
process_results(crew_results) == NoneValue

\* process_domain_request(self, request), up to the kickoff: the call binds
\* exactly one positional argument, then builds the tasks and the crew.
process_domain_request_enter(a) ==
    IF Len(a) # 1
    THEN [raised |-> TRUE, error |-> "TypeError", tasks |-> << >>]
    ELSE create_tasks(a[1])

\* Variant: a failed kickoff is swallowed and what there is gets processed.
process_domain_request_swallow(kickoff) ==
    [raised |-> FALSE, error |-> "", value |-> process_results(kickoff.results)]

\* process_domain_request, from the kickoff on: an exception of the kickoff
\* propagates, its result goes through process_results.
process_domain_request_return(kickoff) ==
    IF kickoff.raised
    THEN [raised |-> TRUE, error |-> kickoff.error, value |-> NoneValue]
    ELSE [raised |-> FALSE, error |-> "", value |-> process_results(kickoff.results)]

NoOutput == [task |-> "none", names |-> {}]

\* Process.sequential: the tasks run in list order; a task gets the output of
\* the task before it as its context.
NextTask(st) ==
    IF \E i \in DOMAIN st : st[i] # "done"
    THEN CHOOSE i \in DOMAIN st : st[i] # "done" /\ \A j \in 1..(i - 1) : st[j] = "done"
    ELSE 0

Context(out, i) == IF i = 1 THEN NoOutput ELSE out[i - 1]

\* What the language model may return for a task that generates names: any
\* set of names of the pool.
Generated(task) == IF task.name = "name_generation" THEN SUBSET NamePool ELSE {{}}

\* What a task hands on. The generator's names are the language model's
\* choice; the two later tasks report on the names in their context.
TaskOutput(task, context, generated) ==
    IF task.name = "name_generation"
    THEN [task |-> task.name, names |-> generated]
    ELSE [task |-> task.name, names |-> context.names]

----------------------------------------------------------------------------
(* DomainResearchUI *)

MaxCandidates == 3      \* candidate names shown in the selection stage
MinSelected == 2        \* len(selected_names) >= 2

NoSession == [k \in {} |-> NoneValue]

SessionDefault(key) ==
    CASE key = "stage" -> "input"
      [] key = "selected_names" -> << >>
      [] key = "final_results" -> NoneValue

\* DomainResearchUI.__init__: the three keys get their defaults when missing.
ui_init(session) ==
    [k \in DOMAIN session \cup {"stage", "selected_names", "final_results"} |->
        IF k \in DOMAIN session THEN session[k] ELSE SessionDefault(k)]

\* session with session[key] = value
Assign(session, key, value) ==
    [k \in DOMAIN session \cup {key} |-> IF k = key THEN value ELSE session[k]]

Industries == {"Technology", "Other"}
WidgetStates ==
    [domain_type : {"", "tech startup"}, industry : Industries,
     max_length : {5, 15, 20}, include_numbers : BOOLEAN]
WidgetDefaults ==
    [domain_type |-> "", industry |-> "Technology", max_length |-> 15, include_numbers |-> FALSE]

\* render_input_stage: the argument list of its call.
InputArgs(w) == <<Str(<<w.domain_type, " in ", w.industry, " industry">>)>>

\* render_input_stage, after the call: initial_results['initial_names'] is
\* stored and the stage moves on; an exception leaves the session as it was.
render_input_stage_after(session, call) ==
    IF call.raised
    THEN [raised |-> TRUE, error |-> call.error, session |-> session]
    ELSE IF call.value.type # "dict"
    THEN [raised |-> TRUE, error |-> "TypeError", session |-> session]
    ELSE IF "initial_names" \notin DOMAIN call.value.fields
    THEN [raised |-> TRUE, error |-> "KeyError", session |-> session]
    ELSE [raised |-> FALSE, error |-> "",
          session |-> Assign(Assign(session, "initial_names", call.value.fields["initial_names"]),
                             "stage", "selection")]

\* render_selection_stage: the argument list of its call.
SelectionArgs(session) == <<Str(<<"domain analysis">>), [type |-> "list", value |-> session["selected_names"]]>>

\* render_selection_stage, after the call: lines 125-126.
render_selection_stage_after(session, call) ==
    IF call.raised
    THEN [raised |-> TRUE, error |-> call.error, session |-> session]
    ELSE [raised |-> FALSE, error |-> "",
          session |-> Assign(Assign(session, "final_results", call.value), "stage", "analysis")]

\* The caller's code after process_domain_request returned or raised.
AfterCall(who, session, call) ==
    CASE who = "render_input_stage" -> render_input_stage_after(session, call)
      [] who = "render_selection_stage" -> render_selection_stage_after(session, call)
      [] OTHER -> [raised |-> call.raised, error |-> call.error, session |-> session]

Range(seq) == {seq[i] : i \in DOMAIN seq}

\* Variant of the gate: one selected name is enough.
ProceedShown_one(session) == Len(session["selected_names"]) >= 1

\* len(st.session_state.selected_names) >= 2: the button is rendered.
ProceedShown(session) == Len(session["selected_names"]) >= MinSelected

\* Variant of the checkbox loop: a ticked name is appended on every run,
\* whether it is in selected_names or not.
RECURSIVE AppendChecked_no_guard(_, _, _)
AppendChecked_no_guard(names, ticked, selected) ==
    IF names = << >> THEN selected
    ELSE AppendChecked_no_guard(Tail(names), ticked,
            IF Head(names) \in ticked
            THEN Append(selected, Head(names))
            ELSE selected)

\* The checkbox loop of render_selection_stage (lines 102-113): in the order
\* of initial_names, a ticked name not yet in selected_names is appended.
RECURSIVE AppendChecked(_, _, _)
AppendChecked(names, ticked, selected) ==
    IF names = << >> THEN selected
    ELSE AppendChecked(Tail(names), ticked,
            IF Head(names) \in ticked /\ Head(names) \notin Range(selected)
            THEN Append(selected, Head(names))
            ELSE selected)

----------------------------------------------------------------------------
(* State shared by the specifications *)

NoReturn == [tool |-> "none"]
NoLookup == [kind |-> "none"]

Count(n) == IF n < MaxRequests THEN n + 1 ELSE n

\* No process_domain_request call has been made.
NoCall ==
    /\ caller = "none"
    /\ args = << >>
    /\ pc = "idle"
    /\ error = ""
    /\ tasks = << >>
    /\ status = << >>
    /\ input = << >>
    /\ output = << >>
    /\ result = NoneValue

\* A rerun of the script that calls nothing.
ResetCall ==
    /\ caller' = "none"
    /\ args' = << >>
    /\ pc' = "idle"
    /\ error' = ""
    /\ tasks' = << >>
    /\ status' = << >>
    /\ input' = << >>
    /\ output' = << >>
    /\ result' = NoneValue

\* No tool has been called.
NoToolCall ==
    /\ domain_name = << >>
    /\ ret = NoReturn
    /\ lookup = NoLookup
    /\ http = 0

----------------------------------------------------------------------------
(* SpecTools: the tool functions called on a domain string *)

InitTools ==
    /\ environ \in Environs
    /\ tools_self = DomainTools_init(environ)
    /\ domain_name \in Domains
    /\ ret = NoReturn
    /\ lookup = NoLookup
    /\ http = 0
    /\ program = "tools"
    /\ session_state = NoSession
    /\ widgets = WidgetDefaults
    /\ checked = {}
    /\ NoCall

\* The environment changes and a new DomainTools() is constructed.
Construct(env) ==
    /\ environ' = env
    /\ tools_self' = DomainTools_init(env)
    /\ UNCHANGED <<domain_name, ret, lookup, http, program, uiVars, callVars>>

CallEstimate ==
    LET r == estimate_domain_value(tools_self, domain_name)
    IN /\ ret' = [tool |-> "estimate_domain_value", raised |-> r.raised, value |-> r.value]
       /\ http' = IF r.requests > 0 THEN Count(http) ELSE http
       /\ UNCHANGED <<environ, tools_self, domain_name, lookup, program, uiVars, callVars>>

CallAvailability(l) ==
    LET r == check_domain_availability(tools_self, domain_name, l)
    IN /\ ret' = [tool |-> "check_domain_availability", raised |-> r.raised, value |-> r.value]
       /\ lookup' = l
       /\ http' = IF r.requests > 0 THEN Count(http) ELSE http
       /\ UNCHANGED <<environ, tools_self, domain_name, program, uiVars, callVars>>

CallResearch ==
    LET r == research_similar_companies(tools_self, domain_name)
    IN /\ ret' = [tool |-> "research_similar_companies", raised |-> r.raised, value |-> r.value]
       /\ http' = IF r.requests > 0 THEN Count(http) ELSE http
       /\ UNCHANGED <<environ, tools_self, domain_name, lookup, program, uiVars, callVars>>

CallTrademark ==
    LET r == check_trademark_conflicts(tools_self, domain_name)
    IN /\ ret' = [tool |-> "check_trademark_conflicts", raised |-> r.raised, value |-> r.value]
       /\ http' = IF r.requests > 0 THEN Count(http) ELSE http
       /\ UNCHANGED <<environ, tools_self, domain_name, lookup, program, uiVars, callVars>>

NextTools ==
    \/ \E env \in Environs : Construct(env)
    \/ CallEstimate
    \/ \E l \in Lookups : CallAvailability(l)
    \/ CallResearch
    \/ CallTrademark

SpecTools == InitTools /\ [][NextTools]_vars

----------------------------------------------------------------------------
(* SpecVariations: generate_domain_variations called on a base name *)

InitVariations ==
    /\ environ \in Environs
    /\ tools_self = DomainTools_init(environ)
    /\ domain_name \in BaseNames
    /\ ret = NoReturn
    /\ lookup = NoLookup
    /\ http = 0
    /\ program = "tools"
    /\ session_state = NoSession
    /\ widgets = WidgetDefaults
    /\ checked = {}
    /\ NoCall

CallVariations ==
    LET r == generate_domain_variations(tools_self, domain_name)
    IN /\ ret' = [tool |-> "generate_domain_variations", raised |-> r.raised, value |-> r.value]
       /\ http' = IF r.requests > 0 THEN Count(http) ELSE http
       /\ UNCHANGED <<environ, tools_self, domain_name, lookup, program, uiVars, callVars>>

NextVariations ==
    \/ \E env \in Environs : Construct(env)
    \/ CallVariations

SpecVariations == InitVariations /\ [][NextVariations]_vars

----------------------------------------------------------------------------
(* Spec: the two programs, main() of domain_research_crew.py and the        *)
(* streamlit script dns.py                                                  *)

Init ==
    /\ environ \in Environs
    /\ tools_self = DomainTools_init(environ)
    /\ NoToolCall
    /\ program \in {"main", "streamlit"}
    /\ session_state = IF program = "streamlit" THEN ui_init(NoSession) ELSE NoSession
    /\ widgets = WidgetDefaults
    /\ checked = {}
    /\ NoCall

Stage == get(session_state, "stage", "none")

\* who calls process_domain_request with the arguments a, from the session s.
\* A call that raises before the kickoff ends here, in the caller.
Enter(who, a, s) ==
    LET e == process_domain_request_enter(a)
        after == AfterCall(who, s, [raised |-> TRUE, error |-> e.error, value |-> NoneValue])
    IN /\ caller' = who
       /\ args' = a
       /\ result' = NoneValue
       /\ IF e.raised
          THEN /\ pc' = "raised"
               /\ error' = after.error
               /\ tasks' = << >>
               /\ status' = << >>
               /\ input' = << >>
               /\ output' = << >>
               /\ session_state' = after.session
          ELSE /\ pc' = "kickoff"
               /\ error' = ""
               /\ tasks' = e.tasks
               /\ status' = [i \in DOMAIN e.tasks |-> "pending"]
               /\ input' = [i \in DOMAIN e.tasks |-> NoOutput]
               /\ output' = [i \in DOMAIN e.tasks |-> NoOutput]
               /\ session_state' = s

\* main(): crew.process_domain_request(request)
Main(request) ==
    /\ program = "main"
    /\ pc = "idle"
    /\ Enter("main", <<request>>, session_state)
    /\ UNCHANGED <<toolVars, program, widgets, checked>>

Running == {i \in DOMAIN status : status[i] = "running"}

\* crew.kickoff(): the next task of the list starts, with its context.
StartTask ==
    /\ pc = "kickoff"
    /\ Running = {}
    /\ LET i == NextTask(status)
       IN /\ i # 0
          /\ status[i] = "pending"
          /\ status' = [status EXCEPT ![i] = "running"]
          /\ input' = [input EXCEPT ![i] = Context(output, i)]
    /\ UNCHANGED <<toolVars, program, uiVars, caller, args, pc, error, tasks, output, result>>

\* The end of the call, seen from the caller: kickoff is what crew.kickoff()
\* did.
Leave(kickoff) ==
    LET r == process_domain_request_return(kickoff)
        after == AfterCall(caller, session_state, r)
    IN /\ pc' = IF after.raised THEN "raised" ELSE "returned"
       /\ error' = after.error
       /\ result' = r.value
       /\ session_state' = after.session

\* The running task completes; after the last one the kickoff returns its
\* output, and process_domain_request returns to its caller.
FinishTask ==
    /\ pc = "kickoff"
    /\ \E i \in Running : \E generated \in Generated(tasks[i]) :
        LET out == TaskOutput(tasks[i], input[i], generated)
        IN /\ status' = [status EXCEPT ![i] = "done"]
           /\ output' = [output EXCEPT ![i] = out]
           /\ IF i = Len(tasks)
              THEN Leave([raised |-> FALSE, error |-> "", results |-> out])
              ELSE UNCHANGED <<pc, error, result, session_state>>
    /\ UNCHANGED <<toolVars, program, widgets, checked, caller, args, tasks, input>>

\* The running task raises: the exception leaves crew.kickoff().
FailTask ==
    /\ pc = "kickoff"
    /\ \E i \in Running :
        /\ status' = [status EXCEPT ![i] = "failed"]
        /\ Leave([raised |-> TRUE, error |-> "TaskError", results |-> Context(output, i)])
    /\ UNCHANGED <<toolVars, program, widgets, checked, caller, args, tasks, input, output>>

\* A rerun of the script in the input stage after a widget changed: no
\* button is pressed, nothing is called.
SetWidgets(w) ==
    /\ program = "streamlit"
    /\ pc # "kickoff"
    /\ Stage = "input"
    /\ w # widgets
    /\ widgets' = w
    /\ session_state' = ui_init(session_state)
    /\ ResetCall
    /\ UNCHANGED <<toolVars, program, checked>>

\* "Generate Names" is pressed (render_input_stage, lines 87-94).
ClickGenerate ==
    /\ program = "streamlit"
    /\ pc # "kickoff"
    /\ Stage = "input"
    /\ Enter("render_input_stage", InputArgs(widgets), ui_init(session_state))
    /\ UNCHANGED <<toolVars, program, widgets, checked>>

Next ==
    \/ \E request \in Requests : Main(request)
    \/ StartTask
    \/ FinishTask
    \/ FailTask
    \/ \E w \in WidgetStates : SetWidgets(w)
    \/ ClickGenerate

Spec == Init /\ [][Next]_vars

----------------------------------------------------------------------------
(* SpecGate: render_selection_stage, from a session in the selection stage *)
(* that holds distinct candidate names (the session lines 93-94 of dns.py  *)
(* store)                                                                   *)

Candidates == 1..MaxCandidates

CandidateLists ==
    {names \in UNION {[1..k -> Candidates] : k \in 0..MaxCandidates} :
        \A i, j \in DOMAIN names : names[i] = names[j] => i = j}

InitGate ==
    /\ environ \in Environs
    /\ tools_self = DomainTools_init(environ)
    /\ NoToolCall
    /\ program = "streamlit"
    /\ \E names \in CandidateLists :
        session_state = Assign(Assign(ui_init(NoSession), "initial_names", names),
                               "stage", "selection")
    /\ widgets = WidgetDefaults
    /\ checked = {}
    /\ NoCall

\* The session after the checkbox loop ran with the boxes in ticked ticked.
Rendered(session, ticked) ==
    Assign(session, "selected_names",
           AppendChecked(session["initial_names"], ticked, session["selected_names"]))

\* A checkbox is clicked: the script reruns, no button is pressed.
Toggle(name) ==
    /\ pc # "kickoff"
    /\ Stage = "selection"
    /\ "initial_names" \in DOMAIN session_state
    /\ name \in Range(session_state["initial_names"])
    /\ checked' = IF name \in checked THEN checked \ {name} ELSE checked \cup {name}
    /\ session_state' = Rendered(ui_init(session_state), checked')
    /\ ResetCall
    /\ UNCHANGED <<toolVars, program, widgets>>

\* "Proceed with Analysis" is pressed (lines 119-126); the button is there
\* when the last run rendered it.
ClickProceed ==
    /\ pc # "kickoff"
    /\ Stage = "selection"
    /\ "initial_names" \in DOMAIN session_state
    /\ ProceedShown(session_state)
    /\ LET s == Rendered(ui_init(session_state), checked)
       IN /\ ProceedShown(s)
          /\ Enter("render_selection_stage", SelectionArgs(s), s)
    /\ UNCHANGED <<toolVars, program, widgets, checked>>

NextGate ==
    \/ \E name \in Candidates : Toggle(name)
    \/ ClickProceed

SpecGate == InitGate /\ [][NextGate]_vars

----------------------------------------------------------------------------
(* Properties of the tools *)

\* Position of the last "." of a string, 0 when it has none.
LastDot(name) ==
    IF \E i \in 1..Len(name) : name[i] = "."
    THEN CHOOSE i \in 1..Len(name) :
            /\ name[i] = "."
            /\ \A j \in (i + 1)..Len(name) : name[j] # "."
    ELSE 0

\* The domain with its top-level suffix removed.
BareLabel(name) ==
    IF LastDot(name) = 0 THEN name ELSE SubSeq(name, 1, LastDot(name) - 1)

\* 1000 x (2 if short) x (1.5 if digit-free), as a table.
Valuation(short, digitFree) ==
    CASE short /\ digitFree -> 3000
      [] short /\ ~digitFree -> 2000
      [] ~short /\ digitFree -> 1500
      [] OTHER -> 1000

Estimated == ret.tool = "estimate_domain_value"

\* C1 as stated: the value is 1000 x (2 if the bare label, the domain without
\* its top-level suffix, has fewer than 6 characters) x (1.5 if the label has
\* no digit).
C1_ValueFromBareLabel ==
    Estimated =>
        ret.value.estimated_value =
            Valuation(Len(BareLabel(domain_name)) < 6, ~has_numbers(BareLabel(domain_name)))

\* C1 as amended: the value is 1000 x (2 if the whole domain string, suffix
\* included, has fewer than 6 characters) x (1.5 if the whole string has no
\* digit); the two multipliers compose, giving one of 1000, 1500, 2000, 3000.
C1_ValueFromWholeString ==
    Estimated =>
        /\ ret.value.estimated_value =
                Valuation(Len(domain_name) < 6,
                          \A i \in 1..Len(domain_name) : domain_name[i] \notin Digits)
        /\ ret.value.factors.length = Len(domain_name)

\* A 4-character digit-free label with a suffix has been valued: at 1500.
C1_Witness ==
    /\ Estimated
    /\ domain_name = <<"a", "a", "a", "a", ".", "a">>
    /\ ret.value.estimated_value = 1500

Checked == ret.tool = "check_domain_availability"

\* The lookup failed: transport exception, unparseable body, a body that is
\* not an object, or an object without the 'available' field.
LookupFailed ==
    \/ lookup.kind \in {"transport_error", "unparseable", "json_list", "json_null"}
    \/ lookup.kind = "json_object" /\ "available" \notin DOMAIN lookup.data

\* C2: whatever the registrar lookup does, check_domain_availability returns
\* (never raises) a record for the input domain; its 'available' is false
\* after every failed lookup, and true only when the parsed response said so.
C2_AvailabilityNeverRaises ==
    Checked =>
        /\ ~ret.raised
        /\ ret.value.domain = domain_name
        /\ "available" \in DOMAIN ret.value
        /\ LookupFailed => ret.value.available = PyFalse
        /\ ret.value.available = PyTrue =>
                /\ lookup.kind = "json_object"
                /\ "available" \in DOMAIN lookup.data
                /\ lookup.data["available"] = PyTrue

\* A body that is not an object was answered with available = false.
C2_Witness ==
    /\ Checked
    /\ lookup.kind = "json_list"
    /\ ret.value.available = PyFalse
    /\ "error" \in DOMAIN ret.value

\* C10: estimate_domain_value depends on the domain string alone: the record
\* it returned is the one it returns for the same string on any other
\* instance (any credentials), whatever calls came before; and the call
\* sends no HTTP request and leaves the instance and the environment alone.
C10_EstimatePure ==
    /\ [](Estimated =>
            \A env \in Environs :
                estimate_domain_value(DomainTools_init(env), domain_name).value = ret.value)
    /\ [][(ret'.tool = "estimate_domain_value" /\ ret.tool # "estimate_domain_value") =>
            (http' = http /\ environ' = environ /\ tools_self' = tools_self)]_vars

\* A valuation made without credentials, after a lookup had been sent.
C10_Witness ==
    /\ Estimated
    /\ http > 0
    /\ tools_self.godaddy_api_key = PyNone
    /\ Len(domain_name) > 0

----------------------------------------------------------------------------
(* Properties of the pipeline and of the selection gate *)

SelectedNames == get(session_state, "selected_names", << >>)

TaskIndex(name) == CHOOSE i \in DOMAIN tasks : tasks[i].name = name
StatusOf(name) == IF tasks = << >> THEN "pending" ELSE status[TaskIndex(name)]
InputOf(name) == input[TaskIndex(name)]
OutputOf(name) == output[TaskIndex(name)]

\* C3: the analysis is called from the selection stage only with at least 2
\* selected names, and "Proceed with Analysis" can be pressed exactly when at
\* least 2 names are selected.
C3_SelectionGate ==
    /\ caller = "render_selection_stage" =>
            /\ Len(args[2].value) >= 2
            /\ args[2].value = SelectedNames
    /\ (Stage = "selection" /\ Len(SelectedNames) >= 2) => ENABLED ClickProceed
    /\ Len(SelectedNames) < 2 => ~ENABLED ClickProceed

\* The button was pressed with exactly 2 names selected, and the call made.
C3_Witness ==
    /\ caller = "render_selection_stage"
    /\ Len(SelectedNames) = 2
    /\ Cardinality(checked) = 2
    /\ pc # "idle"

\* C4: the domains handed to the market research task are among the names
\* the user selected.
C4_ResearchOnlySelected ==
    StatusOf("market_research") # "pending" =>
        InputOf("market_research").names \subseteq Range(SelectedNames)

\* C5: a call without selected names runs the name generation only and
\* returns its output; a call with selected names runs the two later stages
\* on exactly those names.
C5_StageOneOnly ==
    /\ (pc = "returned" /\ Len(args) = 1) =>
            /\ StatusOf("availability") = "pending"
            /\ StatusOf("market_research") = "pending"
            /\ result = OutputOf("name_generation")
    /\ (pc \in {"returned", "raised"} /\ Len(args) = 2) =>
            /\ pc = "returned"
            /\ InputOf("availability").names = Range(args[2].value)
            /\ InputOf("market_research").names = Range(args[2].value)

\* C6: the three stages run one at a time and in order: the availability
\* stage starts only after the name generation is done and with its output,
\* the market research only after the availability stage is done and with
\* its output.
C6_StagesInOrder ==
    tasks # << >> =>
        /\ Cardinality(Running) <= 1
        /\ {tasks[i].name : i \in DOMAIN tasks} = {"name_generation", "availability", "market_research"}
        /\ StatusOf("availability") # "pending" =>
                /\ StatusOf("name_generation") = "done"
                /\ InputOf("availability") = OutputOf("name_generation")
                /\ InputOf("availability").task = "name_generation"
        /\ StatusOf("market_research") # "pending" =>
                /\ StatusOf("availability") = "done"
                /\ InputOf("market_research") = OutputOf("availability")
                /\ InputOf("market_research").task = "availability"

\* The market research is running on what the two earlier stages produced.
C6_Witness ==
    /\ pc = "kickoff"
    /\ StatusOf("market_research") = "running"
    /\ StatusOf("availability") = "done"
    /\ OutputOf("name_generation").names # {}

\* C7: when a stage fails, no later stage runs, the call ends with the
\* exception (not with a result), and the step that ends a call with an
\* exception leaves the session as it was.
C7_FailureAborts ==
    /\ [](\A i \in DOMAIN status :
            status[i] = "failed" =>
                /\ pc = "raised"
                /\ error # ""
                /\ result = NoneValue
                /\ \A j \in DOMAIN status : j > i => status[j] = "pending")
    /\ [][pc' = "raised" => session_state' = session_state]_vars

\* The availability stage failed after the generator had produced names.
C7_Witness ==
    /\ pc = "raised"
    /\ StatusOf("availability") = "failed"
    /\ StatusOf("market_research") = "pending"
    /\ OutputOf("name_generation").names # {}

RiskLevels == {"LOW", "MEDIUM", "HIGH"}

\* C8: a completed run returns one aggregate object: its available domains
\* are among the selected names, and every available domain has a non-empty
\* company list and a non-empty trademark list with risk levels LOW, MEDIUM
\* or HIGH.
C8_AggregateResult ==
    pc = "returned" =>
        /\ result.type = "dict"
        /\ result.fields.available_domains \subseteq Range(SelectedNames)
        /\ \A d \in result.fields.available_domains :
                /\ result.fields.market_research[d].similar_companies # << >>
                /\ result.fields.market_research[d].trademark_conflicts # << >>
                /\ \A t \in Range(result.fields.market_research[d].trademark_conflicts) :
                        t.risk_level \in RiskLevels

\* C9: the name generation hands on exactly 10 names, each with a label no
\* longer than the request's max length.
C9_TenNamesWithinLength ==
    (tasks # << >> /\ StatusOf("name_generation") = "done") =>
        /\ Cardinality(OutputOf("name_generation").names) = 10
        /\ \A n \in OutputOf("name_generation").names : LabelLen(n) <= args[1].max_length

----------------------------------------------------------------------------
(* Properties of the session *)

CallOver == pc \in {"returned", "raised"}

StageRank(stage) ==
    CASE stage = "input" -> 1
      [] stage = "selection" -> 2
      [] stage = "analysis" -> 3
      [] OTHER -> 0

\* C11: a "Generate Names" click ends with the candidate names stored in the
\* session and the stage at selection; a "Proceed with Analysis" click ends
\* with non-empty final results stored and the stage at analysis; the stage is
\* one of input, selection, analysis and never moves back.
C11_StageAdvances ==
    /\ []((caller = "render_input_stage" /\ CallOver) =>
            /\ pc = "returned"
            /\ "initial_names" \in DOMAIN session_state
            /\ Stage = "selection")
    /\ []((caller = "render_selection_stage" /\ CallOver) =>
            /\ pc = "returned"
            /\ session_state["final_results"] # NoneValue
            /\ Stage = "analysis")
    /\ [](program = "streamlit" => Stage \in {"input", "selection", "analysis"})
    /\ [][StageRank(Stage') >= StageRank(Stage)]_vars

IsPrefix(s, t) == Len(s) <= Len(t) /\ SubSeq(t, 1, Len(s)) = s

\* C13: in the selection stage selected_names has no duplicates and holds
\* candidate names only, and a rerun of the script (a checkbox ticked or
\* unticked, a button pressed) keeps the names it holds, in their order: the
\* list only grows at its end.
C13_SelectedNamesGrow ==
    /\ [](Stage = "selection" =>
            /\ \A i, j \in DOMAIN SelectedNames :
                    SelectedNames[i] = SelectedNames[j] => i = j
            /\ Range(SelectedNames) \subseteq Range(session_state["initial_names"]))
    /\ [][IsPrefix(SelectedNames, SelectedNames')]_vars

\* Two names are selected in the order they were ticked, not the order they
\* are listed in, and one of them has been unticked since.
C13_Witness ==
    /\ Stage = "selection"
    /\ Len(SelectedNames) = 2
    /\ Range(SelectedNames) \ checked # {}
    /\ \E i, j \in DOMAIN session_state["initial_names"] :
            /\ i < j
            /\ SelectedNames[1] = session_state["initial_names"][j]
            /\ SelectedNames[2] = session_state["initial_names"][i]

----------------------------------------------------------------------------
(* Properties of the variations *)

Varied == ret.tool = "generate_domain_variations"

\* The ten candidates in the order of the claim: affix joined to the base
\* name, with type and score.
Candidate(i, base_name) ==
    IF i <= 5
    THEN [raw |-> prefixes[i] \o base_name, type |-> "prefix", score |-> "0.8"]
    ELSE [raw |-> base_name \o suffixes[i - 5], type |-> "suffix", score |-> "0.9"]

Included(base_name) == {i \in 1..10 : Len(Candidate(i, base_name).raw) <= 63}

\* The returned list is the candidates of at most 63 characters, in order,
\* each lower-cased.
VariationsAsListed ==
    Varied =>
        /\ Len(ret.value) = Cardinality(Included(domain_name))
        /\ \A k \in DOMAIN ret.value :
                \E i \in Included(domain_name) :
                    /\ Cardinality({j \in Included(domain_name) : j <= i}) = k
                    /\ ret.value[k].name = lower(Candidate(i, domain_name).raw)
                    /\ ret.value[k].type = Candidate(i, domain_name).type
                    /\ ret.value[k].score = Candidate(i, domain_name).score

\* C12: generate_domain_variations returns the prefix variations for get,
\* try, use, my, the (score 0.8), then the suffix variations for app, io, co,
\* net, org (score 0.9), each name the lower-cased concatenation, a candidate
\* being included exactly when its concatenation has at most 63 characters;
\* so every returned name has at most 63 characters, and there are at most 10.
C12_Variations ==
    /\ VariationsAsListed
    /\ Varied =>
            /\ Len(ret.value) <= 10
            /\ \A k \in DOMAIN ret.value : Len(ret.value[k].name) <= 63

====
